---- MODULE Spec2Model ----
(***************************************************************************)
(* Model of src/unfollow.ts: unfollowUser, getMyFollowers, isFollowingMe.  *)
(*                                                                         *)
(* One invocation runs at a time (the functions keep no state across       *)
(* calls).  An invocation is a chain of continuations: the code between    *)
(* the entry of the async function (or the resumption of an `await`) and   *)
(* the next `await`, `return` or `throw` is one action.  The remote        *)
(* service is the environment: every awaited call either resolves with a   *)
(* response chosen by the environment or rejects with a thrown value.      *)
(*                                                                         *)
(* Optional JavaScript values (undefined / null / absent field) are        *)
(* sequences of length at most one: <<>> is absent, <<x>> is present.      *)
(***************************************************************************)
EXTENDS Integers, Sequences, FiniteSets, TLC

\* ------------------------------------------------------------- bounds
\* number of pages the remote followers listing holds
MaxPages == 2
\* largest number of entries on one page of a listing
MaxPageSize == 2
\* largest maxResults argument tried (1 .. MaxMaxResults)
MaxMaxResults == 3
\* length at which the log of issued network calls stops growing
MaxCalls == 6

\* ------------------------------------------------------------- constants
\* Twitter API cap on the page size of one followers request
ApiPageCap == 100

DefaultProfileImage ==
    "https://abs.twimg.com/sticky/default_profile_images/default_profile_normal.png"

NotInitializedMessage ==
    <<"V2 client is not initialized. Please login with API credentials first.">>

NoCurrentUserMessage ==
    <<"Could not get current user ID. Please ensure you are logged in.">>

\* ------------------------------------------------------------- helpers
Min(a, b) == IF a <= b THEN a ELSE b

None == <<>>
Some(x) == <<x>>
IsSome(o) == o # <<>>

\* JavaScript truthiness of an optional string: undefined and "" are falsy
Truthy(o) == o # <<>> /\ o[1] # ""

\* ------------------------------------------------------------- environment
Usernames == {"alice", "bob"}
\* ids the identity resolver may report for the current account
AccountIds == {1, 2}
\* ids that may show up in somebody's following list
FollowingIds == AccountIds \cup {3}

TargetId(u) == IF u = "alice" THEN 21 ELSE 22

ImageUrl == "https://pbs.twimg.com/profile_images/1/photo.jpg"

\* what the user lookup may answer for username u: the raw API user, whose
\* optional fields the service may omit (or send empty)
RawTargets(u) ==
    { [id |-> TargetId(u), username |-> u, name |-> "Display Name",
       profile_image_url |-> img, description |-> None,
       verified |-> Some(FALSE), protected |-> None,
       public_metrics |-> pm] :
         img \in {None, Some(""), Some(ImageUrl)},
         pm \in {None, Some([followers_count |-> 7, following_count |-> 9])} }

\* the j-th raw entry of page p of the followers listing; entries are pairwise
\* distinct and differ in which optional fields they carry
RawFollower(p, j) ==
    [id |-> 10 * p + j, username |-> <<"follower", 10 * p + j>>,
     name |-> "Display Name",
     profile_image_url |-> IF (p + j) % 2 = 0 THEN Some(ImageUrl) ELSE None,
     description |-> IF j % 2 = 0 THEN Some("bio") ELSE None,
     verified |-> Some(FALSE), protected |-> None,
     public_metrics |-> IF j % 2 = 1
                        THEN Some([followers_count |-> p, following_count |-> j])
                        ELSE None]

PageData(p, n) == [j \in 1..n |-> RawFollower(p, j)]

\* a followers page as the service answers it: data absent or a list of
\* 0..MaxPageSize entries; meta.next_token absent or the cursor of a page
PageResponses(p) ==
    { [data |-> d, next_token |-> t] :
        d \in {None} \cup { Some(PageData(p, n)) : n \in 0..MaxPageSize },
        t \in {None} \cup { Some(c) : c \in 1..MaxPages } }

\* the remote followers listing: page p is what the service answers to the
\* cursor p; a request without cursor gets page 1
RECURSIVE RemotesOf(_)
RemotesOf(n) ==
    IF n = 0 THEN {<<>>}
    ELSE { Append(r, page) : r \in RemotesOf(n - 1), page \in PageResponses(n) }

Remotes == RemotesOf(MaxPages)

NoRemote == [p \in 1..MaxPages |-> [data |-> None, next_token |-> None]]

\* one page of a following list
RECURSIVE SeqsUpTo(_, _)
SeqsUpTo(S, n) ==
    IF n = 0 THEN {<<>>}
    ELSE LET shorter == SeqsUpTo(S, n - 1)
         IN shorter \cup { Append(s, x) : s \in shorter, x \in S }

FollowingResponses ==
    { [data |-> d] :
        d \in {None} \cup
              { Some([i \in DOMAIN s |-> [id |-> s[i]]]) :
                    s \in SeqsUpTo(FollowingIds, MaxPageSize) } }

\* what auth.me() may resolve to: null, a profile without userId, a profile
MeResponses ==
    {None, Some([userId |-> None])} \cup { Some([userId |-> Some(a)]) : a \in AccountIds }

\* what a failing remote call throws: an Error, or some other value
Failures ==
    { [kind |-> "Error", message |-> <<"Rate limit exceeded">>],
      [kind |-> "NonError", message |-> <<"socket closed">>] }

\* ------------------------------------------------------------- program state
VARIABLES
    op,               \* the function being executed, "idle" before the first call
    pc,               \* the await the invocation is suspended at, or its outcome
    username,         \* argument of unfollowUser / isFollowingMe
    maxResults,       \* argument of getMyFollowers
    v2client,         \* auth.getV2Client(): None (null) or Some(handle)
    remote,           \* the followers listing the service holds during the call
    user,             \* the lookup response: None until it arrives, then [data |-> ...]
    currentUser,      \* what auth.me() resolved to
    followers,        \* accumulator of getMyFollowers
    paginationToken,  \* cursor of getMyFollowers
    relationship,     \* the following page isFollowingMe received
    pending,          \* the request the invocation is suspended on
    calls,            \* network calls issued by this invocation, in order
    pages,            \* followers pages received by this invocation, in order
    thrown,           \* the value first thrown inside the invocation
    error,            \* the value the caller's promise is rejected with
    result            \* the value the caller's promise is resolved with

vars == <<op, pc, username, maxResults, v2client, remote, user, currentUser,
          followers, paginationToken, relationship, pending, calls, pages,
          thrown, error, result>>

Finished == pc \in {"idle", "returned", "threw"}

\* the logs are observations, not program state: they stop growing at MaxCalls
Log(log, entry) == IF Len(log) < MaxCalls THEN Append(log, entry) ELSE log
LogPage(log, page) == IF Len(log) < MaxCalls - 1 THEN Append(log, page) ELSE log

\* ------------------------------------------------------------- pure parts
\* the mapping of a raw API user to a TwitterUser
ToTwitterUser(u) ==
    [id |-> u.id,
     screenName |-> u.username,
     name |-> u.name,
     profileImageUrl |-> IF Truthy(u.profile_image_url)
                         THEN u.profile_image_url[1]
                         ELSE DefaultProfileImage,
     description |-> u.description,
     verified |-> u.verified,
     protected |-> u.protected,
     followersCount |-> IF IsSome(u.public_metrics)
                        THEN Some(u.public_metrics[1].followers_count) ELSE None,
     friendsCount |-> IF IsSome(u.public_metrics)
                      THEN Some(u.public_metrics[1].following_count) ELSE None]

\* mutant: the check of the client handle is missing
ClientNeverMissing(c) == FALSE

\* if (!v2client)
ClientMissing(c) == c = None

\* mutant: the check of the lookup's data is missing
UserAlwaysFound(response) == FALSE

\* if (!user.data)
UserNotFound(response) == response.data = None

\* if (!currentUser?.userId)
NoCurrentUserId(cu) == cu = None \/ cu[1].userId = None

\* if (!response.data)
NoData(response) == response.data = None

UnfollowPrefix(u) == <<"Failed to unfollow user ", u, ": ">>
FollowersPrefix == <<"Failed to get followers: ">>
FollowCheckPrefix(u) == <<"Failed to check if ", u, " follows you: ">>

Prefix(o, u) ==
    CASE o = "unfollowUser" -> UnfollowPrefix(u)
      [] o = "getMyFollowers" -> FollowersPrefix
      [] o = "isFollowingMe" -> FollowCheckPrefix(u)

NewError(msg) == [kind |-> "Error", message |-> msg]

\* mutant: the catch clause rethrows what it caught
CatchRethrow(prefix, e) == e

\* the catch clause: an Error is replaced by a new Error whose message is the
\* prefix followed by the caught message; anything else is rethrown as it is
Catch(prefix, e) ==
    IF e.kind = "Error" THEN NewError(prefix \o e.message) ELSE e

\* mutant: the cursor is not passed on
FollowersRequestWithoutCursor(userId, max, acc, token) ==
    [api |-> "followers", userId |-> userId,
     max_results |-> Min(ApiPageCap, max - Len(acc)),
     pagination_token |-> None]

\* the arguments of one followers request
FollowersRequest(userId, max, acc, token) ==
    [api |-> "followers", userId |-> userId,
     max_results |-> Min(ApiPageCap, max - Len(acc)),
     pagination_token |-> token]

\* mutant: the two ids are passed in the wrong order
UnfollowRequestSwapped(cu, data) ==
    [api |-> "unfollow", loggedUserId |-> data.id, targetUserId |-> cu[1].userId[1]]

\* the arguments of the unfollow request
UnfollowRequest(cu, data) ==
    [api |-> "unfollow", loggedUserId |-> cu[1].userId[1], targetUserId |-> data.id]

\* the arguments of the following request
FollowingRequest(data) ==
    [api |-> "following", userId |-> data.id, max_results |-> 1]

\* followers.push(...newFollowers)
Push(acc, data) == acc \o [i \in DOMAIN data |-> ToTwitterUser(data[i])]

\* mutant: the break needs more than maxResults entries
TargetExceeded(acc, max) == Len(acc) > max

\* the two exits at the bottom of the do-while body: the break on
\* followers.length >= maxResults, and the loop condition on the token
TargetReached(acc, max) == Len(acc) >= max
LoopAgain(acc, max, token) == ~TargetReached(acc, max) /\ IsSome(token)

\* mutant: only the first entry of the page is compared
FirstFollowingIsMe(rel, cu) ==
    IF rel.data = None \/ rel.data[1] = <<>> THEN FALSE
    ELSE rel.data[1][1].id = cu[1].userId[1]

\* relationship.data?.some(following => following.id === currentUser.userId) ?? false
SomeFollowingIsMe(rel, cu) ==
    IF rel.data = None THEN FALSE
    ELSE \E i \in DOMAIN rel.data[1] : rel.data[1][i].id = cu[1].userId[1]

\* mutant: a page without data skips to the loop condition instead of leaving
LoopBodyContinueOnNoData(acc, token, max, response) ==
    IF NoData(response)
    THEN [exit |-> token = None, followers |-> acc, paginationToken |-> token]
    ELSE LET grown == Push(acc, response.data[1])
             next == response.next_token
         IN [exit |-> ~LoopAgain(grown, max, next),
             followers |-> grown, paginationToken |-> next]

\* the body of the do-while loop from the response on: what the accumulator and
\* the cursor become, and whether the loop is left
LoopBody(acc, token, max, response) ==
    IF NoData(response)
    THEN [exit |-> TRUE, followers |-> acc, paginationToken |-> token]
    ELSE LET grown == Push(acc, response.data[1])
             next == response.next_token
         IN [exit |-> ~LoopAgain(grown, max, next),
             followers |-> grown, paginationToken |-> next]

\* the page the service answers to a followers request
Serve(rem, request) ==
    IF request.pagination_token = None THEN rem[1]
    ELSE rem[request.pagination_token[1]]

\* the responses the service may give to a user lookup
LookupResponses(u) ==
    {[data |-> None]} \cup { [data |-> Some(t)] : t \in RawTargets(u) }

\* ------------------------------------------------------------- control
\* a fresh invocation: nothing is kept from the previous one
Enter(o, u, max, c, rem) ==
    /\ pc = "idle"
    /\ op' = o
    /\ username' = u
    /\ maxResults' = max
    /\ v2client' = c
    /\ remote' = rem
    /\ user' = None
    /\ currentUser' = None
    /\ followers' = <<>>
    /\ paginationToken' = None
    /\ relationship' = [data |-> None]
    /\ pages' = <<>>
    /\ result' = None

\* a throw inside the try block of the running function
ThrowInTry(e) ==
    /\ pc' = "threw"
    /\ pending' = None
    /\ thrown' = Some(e)
    /\ error' = Some(Catch(Prefix(op, username), e))

\* the next remote call is issued and awaited
Await(request) ==
    /\ pc' = request.api
    /\ pending' = Some(request)
    /\ calls' = Log(calls, request)

\* the function returns
Return(value) ==
    /\ pc' = "returned"
    /\ pending' = None
    /\ result' = Some(value)

\* the check on the client handle, ahead of the try block, then the first call
EnterWith(c, firstCall) ==
    IF ClientMissing(c)
    THEN /\ pc' = "threw"
         /\ thrown' = Some(NewError(NotInitializedMessage))
         /\ error' = Some(NewError(NotInitializedMessage))
         /\ pending' = None
         /\ calls' = <<>>
    ELSE /\ pc' = firstCall.api
         /\ thrown' = None
         /\ error' = None
         /\ pending' = Some(firstCall)
         /\ calls' = Log(<<>>, firstCall)

\* ------------------------------------------------------------- unfollowUser
unfollowUser(u, c) ==
    /\ Enter("unfollowUser", u, 0, c, NoRemote)
    /\ EnterWith(c, [api |-> "userByUsername", username |-> u])

unfollowUserAfterLookup ==
    /\ op = "unfollowUser" /\ pc = "userByUsername"
    /\ \E response \in LookupResponses(pending[1].username) :
         /\ user' = Some(response)
         /\ IF UserNotFound(response)
            THEN /\ ThrowInTry(NewError(<<"User ", username, " not found">>))
                 /\ UNCHANGED calls
            ELSE /\ Await([api |-> "me"])
                 /\ UNCHANGED <<thrown, error>>
    /\ UNCHANGED <<op, username, maxResults, v2client, remote, currentUser,
                   followers, paginationToken, relationship, pages, result>>

unfollowUserAfterMe ==
    /\ op = "unfollowUser" /\ pc = "me"
    /\ \E cu \in MeResponses :
         /\ currentUser' = cu
         /\ IF NoCurrentUserId(cu)
            THEN /\ ThrowInTry(NewError(NoCurrentUserMessage))
                 /\ UNCHANGED calls
            ELSE /\ Await(UnfollowRequest(cu, user[1].data[1]))
                 /\ UNCHANGED <<thrown, error>>
    /\ UNCHANGED <<op, username, maxResults, v2client, remote, user,
                   followers, paginationToken, relationship, pages, result>>

unfollowUserAfterUnfollow ==
    /\ op = "unfollowUser" /\ pc = "unfollow"
    /\ Return(ToTwitterUser(user[1].data[1]))
    /\ UNCHANGED <<op, username, maxResults, v2client, remote, user, currentUser,
                   followers, paginationToken, relationship, calls, pages,
                   thrown, error>>

\* the awaited call (lookup, me or unfollow) rejects
unfollowUserRejected ==
    /\ op = "unfollowUser" /\ ~Finished
    /\ \E f \in Failures : ThrowInTry(f)
    /\ UNCHANGED <<op, username, maxResults, v2client, remote, user, currentUser,
                   followers, paginationToken, relationship, calls, pages, result>>

\* ------------------------------------------------------------- getMyFollowers
getMyFollowers(max, c, rem) ==
    /\ Enter("getMyFollowers", "", max, c, rem)
    /\ EnterWith(c, [api |-> "me"])

getMyFollowersAfterMe ==
    /\ op = "getMyFollowers" /\ pc = "me"
    /\ \E cu \in MeResponses :
         /\ currentUser' = cu
         /\ IF NoCurrentUserId(cu)
            THEN /\ ThrowInTry(NewError(NoCurrentUserMessage))
                 /\ UNCHANGED calls
            ELSE /\ Await(FollowersRequest(cu[1].userId[1], maxResults, <<>>, None))
                 /\ UNCHANGED <<thrown, error>>
    /\ followers' = <<>>
    /\ paginationToken' = None
    /\ UNCHANGED <<op, username, maxResults, v2client, remote, user,
                   relationship, pages, result>>

\* one pass through the body of the do-while loop, from the response of the
\* followers request to the next request or to the return
getMyFollowersAfterPage ==
    /\ op = "getMyFollowers" /\ pc = "followers"
    /\ LET response == Serve(remote, pending[1])
           step == LoopBody(followers, paginationToken, maxResults, response)
       IN /\ pages' = LogPage(pages, response)
          /\ followers' = step.followers
          /\ paginationToken' = step.paginationToken
          /\ IF step.exit
             THEN /\ Return(step.followers)
                  /\ UNCHANGED calls
             ELSE /\ Await(FollowersRequest(currentUser[1].userId[1], maxResults,
                                            step.followers, step.paginationToken))
                  /\ UNCHANGED result
    /\ UNCHANGED <<op, username, maxResults, v2client, remote, user, currentUser,
                   relationship, thrown, error>>

\* the awaited call (me or followers) rejects
getMyFollowersRejected ==
    /\ op = "getMyFollowers" /\ ~Finished
    /\ \E f \in Failures : ThrowInTry(f)
    /\ UNCHANGED <<op, username, maxResults, v2client, remote, user, currentUser,
                   followers, paginationToken, relationship, calls, pages, result>>

\* ------------------------------------------------------------- isFollowingMe
isFollowingMe(u, c) ==
    /\ Enter("isFollowingMe", u, 0, c, NoRemote)
    /\ EnterWith(c, [api |-> "userByUsername", username |-> u])

isFollowingMeAfterLookup ==
    /\ op = "isFollowingMe" /\ pc = "userByUsername"
    /\ \E response \in LookupResponses(pending[1].username) :
         /\ user' = Some(response)
         /\ IF UserNotFound(response)
            THEN /\ ThrowInTry(NewError(<<"User ", username, " not found">>))
                 /\ UNCHANGED calls
            ELSE /\ Await([api |-> "me"])
                 /\ UNCHANGED <<thrown, error>>
    /\ UNCHANGED <<op, username, maxResults, v2client, remote, currentUser,
                   followers, paginationToken, relationship, pages, result>>

isFollowingMeAfterMe ==
    /\ op = "isFollowingMe" /\ pc = "me"
    /\ \E cu \in MeResponses :
         /\ currentUser' = cu
         /\ IF NoCurrentUserId(cu)
            THEN /\ ThrowInTry(NewError(NoCurrentUserMessage))
                 /\ UNCHANGED calls
            ELSE /\ Await(FollowingRequest(user[1].data[1]))
                 /\ UNCHANGED <<thrown, error>>
    /\ UNCHANGED <<op, username, maxResults, v2client, remote, user,
                   followers, paginationToken, relationship, pages, result>>

isFollowingMeAfterFollowing ==
    /\ op = "isFollowingMe" /\ pc = "following"
    /\ \E rel \in FollowingResponses :
         /\ relationship' = rel
         /\ Return(SomeFollowingIsMe(rel, currentUser))
    /\ UNCHANGED <<op, username, maxResults, v2client, remote, user, currentUser,
                   followers, paginationToken, calls, pages, thrown, error>>

\* the awaited call (lookup, me or following) rejects
isFollowingMeRejected ==
    /\ op = "isFollowingMe" /\ ~Finished
    /\ \E f \in Failures : ThrowInTry(f)
    /\ UNCHANGED <<op, username, maxResults, v2client, remote, user, currentUser,
                   followers, paginationToken, relationship, calls, pages, result>>

\* ------------------------------------------------------------- specification
Init ==
    /\ op = "idle"
    /\ pc = "idle"
    /\ username = ""
    /\ maxResults = 0
    /\ v2client = None
    /\ remote = NoRemote
    /\ user = None
    /\ currentUser = None
    /\ followers = <<>>
    /\ paginationToken = None
    /\ relationship = [data |-> None]
    /\ pending = None
    /\ calls = <<>>
    /\ pages = <<>>
    /\ thrown = None
    /\ error = None
    /\ result = None

Clients == {None, Some("v2client")}

\* the host calls one of the three functions
Invoke ==
    \/ /\ pc = "idle"
       /\ \E u \in Usernames, c \in Clients : unfollowUser(u, c)
    \/ /\ pc = "idle"
       /\ \E max \in 1..MaxMaxResults, c \in Clients, rem \in Remotes :
              getMyFollowers(max, c, rem)
    \/ /\ pc = "idle"
       /\ \E u \in Usernames, c \in Clients : isFollowingMe(u, c)

\* the caller has taken the outcome; nothing of the invocation outlives it
Discard ==
    /\ pc \in {"returned", "threw"}
    /\ op' = "idle"
    /\ pc' = "idle"
    /\ username' = ""
    /\ maxResults' = 0
    /\ v2client' = None
    /\ remote' = NoRemote
    /\ user' = None
    /\ currentUser' = None
    /\ followers' = <<>>
    /\ paginationToken' = None
    /\ relationship' = [data |-> None]
    /\ pending' = None
    /\ calls' = <<>>
    /\ pages' = <<>>
    /\ thrown' = None
    /\ error' = None
    /\ result' = None

\* a suspended invocation is resumed: its awaited call resolved or rejected
Resume ==
    \/ unfollowUserAfterLookup
    \/ unfollowUserAfterMe
    \/ unfollowUserAfterUnfollow
    \/ unfollowUserRejected
    \/ getMyFollowersAfterMe
    \/ getMyFollowersAfterPage
    \/ getMyFollowersRejected
    \/ isFollowingMeAfterLookup
    \/ isFollowingMeAfterMe
    \/ isFollowingMeAfterFollowing
    \/ isFollowingMeRejected

Next == Invoke \/ Resume \/ Discard

Spec == Init /\ [][Next]_vars

\* every awaited remote call eventually resolves or rejects
FairSpec == Spec /\ WF_vars(Resume)

\* ------------------------------------------------------------- observations
Running(o) == op = o /\ ~Finished
Returned(o) == op = o /\ pc = "returned"
Threw(o) == op = o /\ pc = "threw"

\* the positions of the calls of one api in the log
CallsOf(api) == { i \in DOMAIN calls : calls[i].api = api }
Apis == [i \in DOMAIN calls |-> calls[i].api]

\* the number of entries on a received page (0 when it has no data)
PageSize(page) == IF page.data = None THEN 0 ELSE Len(page.data[1])

RECURSIVE Received(_)
\* the number of entries received on the first i pages
Received(i) == IF i = 0 THEN 0 ELSE Received(i - 1) + PageSize(pages[i])

RECURSIVE Entries(_, _)
\* the entries of pages 1..i of the sequence ps, page after page, normalized
Entries(ps, i) ==
    IF i = 0 THEN <<>>
    ELSE Entries(ps, i - 1) \o [j \in 1..PageSize(ps[i]) |-> ToTwitterUser(ps[i].data[1][j])]

\* ------------------------------------------------------------- C1
\* C1: getMyFollowers returns a sequence of length <= maxResults, whatever
\* pages the service answers.
C1_LengthAtMostMaxResults ==
    Returned("getMyFollowers") => Len(result[1]) <= maxResults

\* ------------------------------------------------------------- C2
\* C2: every invocation of getMyFollowers issues finitely many page requests
\* and then returns or fails, provided each remote call resolves or rejects.
C2_Terminates == Running("getMyFollowers") ~> Finished

\* ------------------------------------------------------------- C3
\* C3: once the running total reaches or exceeds maxResults after a page is
\* appended, no further followers request is issued, even if that page carried
\* a next cursor, and the result has length >= maxResults.
C3_StopsAtTarget ==
    op = "getMyFollowers" =>
        \A i \in DOMAIN pages :
            (pages[i].data # None /\ Received(i) >= maxResults) =>
                /\ i = Len(pages)
                /\ Cardinality(CallsOf("followers")) = i
                /\ pc = "returned"
                /\ Len(result[1]) >= maxResults

C3_Witness ==
    /\ Returned("getMyFollowers")
    /\ maxResults >= 2
    /\ Len(pages) >= 2
    /\ pages[Len(pages)].data # None
    /\ pages[Len(pages)].next_token # None
    /\ Received(Len(pages)) >= maxResults

\* ------------------------------------------------------------- C4
\* the remote listing is exactly k pages: each of pages 1..k carries data, each
\* but the last points to the next one, and the last has no next cursor
IsChain(rem, k) ==
    /\ \A p \in 1..k : rem[p].data # None
    /\ \A p \in 1..(k - 1) : rem[p].next_token = Some(p + 1)
    /\ rem[k].next_token = None

RECURSIVE Held(_, _)
\* the number of followers on pages 1..k of the remote listing
Held(rem, k) == IF k = 0 THEN 0 ELSE Held(rem, k - 1) + PageSize(rem[k])

\* C4: when the remote listing holds N < maxResults followers on k pages chained
\* by next cursors, getMyFollowers returns exactly those N entries in page order
\* after exactly k followers requests, the first without cursor and each later
\* one with the previous page's next cursor.
C4_ExhaustsPages ==
    \A k \in 1..MaxPages :
        (Returned("getMyFollowers") /\ IsChain(remote, k) /\ Held(remote, k) < maxResults) =>
            /\ result[1] = Entries(remote, k)
            /\ Len(result[1]) = Held(remote, k)
            /\ Apis = <<"me">> \o [i \in 1..k |-> "followers"]
            /\ calls[2].pagination_token = None
            /\ \A i \in 2..k : calls[i + 1].pagination_token = remote[i - 1].next_token

C4_Witness ==
    /\ Returned("getMyFollowers")
    /\ IsChain(remote, MaxPages)
    /\ Held(remote, MaxPages) < maxResults
    /\ \A p \in 1..MaxPages : PageSize(remote[p]) >= 1
    /\ Len(result[1]) = Held(remote, MaxPages)

\* ------------------------------------------------------------- C5
\* C5: a followers page without data, also one fetched with a cursor, ends the
\* loop at once: no further request, no error, and the result is what the
\* earlier pages accumulated.
C5_StopsOnNoData ==
    op = "getMyFollowers" =>
        \A i \in DOMAIN pages :
            pages[i].data = None =>
                /\ i = Len(pages)
                /\ Cardinality(CallsOf("followers")) = i
                /\ pc = "returned"
                /\ error = None
                /\ result[1] = Entries(pages, i - 1)

C5_Witness ==
    /\ Returned("getMyFollowers")
    /\ Len(pages) >= 2
    /\ pages[Len(pages)].data = None
    /\ calls[Len(calls)].pagination_token # None
    /\ Len(result[1]) >= 1

\* ------------------------------------------------------------- C6
\* C6 as stated: every Error raised at any step, the check of the client handle
\* included, reaches the caller as one Error whose message is the prefix of
\* the operation followed by the original message.
C6_EveryErrorWrapped ==
    (pc = "threw" /\ thrown[1].kind = "Error") =>
        error = Some(NewError(Prefix(op, username) \o thrown[1].message))

\* C6 amended: an Error raised after the check of the client handle (user not
\* found, no current user id, a failed remote call) reaches the caller as one
\* Error whose message is the prefix followed by the original message; the
\* client-handle Error reaches the caller as it is, without prefix.
C6_ErrorWrappedInsideTry ==
    (pc = "threw" /\ thrown[1].kind = "Error") =>
        /\ result = None
        /\ IF v2client = None
           THEN error = Some(NewError(NotInitializedMessage))
           ELSE error = Some(NewError(Prefix(op, username) \o thrown[1].message))

C6_Witness ==
    /\ Threw("unfollowUser")
    /\ CallsOf("unfollow") # {}
    /\ thrown[1].kind = "Error"
    /\ error[1].message = <<"Failed to unfollow user ", username, ": ">> \o thrown[1].message

\* ------------------------------------------------------------- C7
\* C7: without a client handle each of the three functions fails with the
\* not-initialized Error and issues no network call.
C7_NoClientNoCall ==
    (op # "idle" /\ v2client = None) =>
        /\ pc = "threw"
        /\ error = Some(NewError(NotInitializedMessage))
        /\ calls = <<>>
        /\ pending = None
        /\ result = None

C7_Witness == Threw("isFollowingMe") /\ v2client = None /\ calls = <<>>

\* ------------------------------------------------------------- C8
\* C8: when the lookup returns no data, unfollowUser and isFollowingMe fail
\* with the user-not-found Error and issue no later call.
C8_UnknownUserStops ==
    (op \in {"unfollowUser", "isFollowingMe"} /\ user # None /\ user[1].data = None) =>
        /\ pc = "threw"
        /\ error = Some(NewError(Prefix(op, username) \o <<"User ", username, " not found">>))
        /\ Apis = <<"userByUsername">>
        /\ pending = None

C8_Witness ==
    /\ Threw("isFollowingMe")
    /\ user = Some([data |-> None])
    /\ Apis = <<"userByUsername">>

\* ------------------------------------------------------------- C9
\* C9: unfollowUser issues the unfollow call at most once, as its third call,
\* after the lookup returned data and the current account id was resolved, with
\* (current account id, target id); a failed unfollow call is surfaced, not
\* retried.
C9_UnfollowOnce ==
    /\ Cardinality(CallsOf("unfollow")) <= 1
    /\ \A i \in CallsOf("unfollow") :
          /\ op = "unfollowUser"
          /\ i = 3
          /\ Apis = <<"userByUsername", "me", "unfollow">>
          /\ user # None /\ user[1].data # None
          /\ currentUser # None /\ currentUser[1].userId # None
          /\ calls[i].loggedUserId = currentUser[1].userId[1]
          /\ calls[i].targetUserId = user[1].data[1].id
          /\ calls[i].targetUserId = TargetId(username)
          /\ pc = "threw" => /\ thrown[1] \in Failures
                             /\ error = Some(Catch(UnfollowPrefix(username), thrown[1]))
                             /\ result = None

C9_Witness ==
    /\ Threw("unfollowUser")
    /\ Apis = <<"userByUsername", "me", "unfollow">>
    /\ calls[3].loggedUserId = 2
    /\ calls[3].targetUserId = 21

\* ------------------------------------------------------------- C10
\* C10: isFollowingMe fetches exactly one page of the target's following list
\* and returns true iff the current account id is among its entries; it returns
\* false, without error, when the page has no data or lacks the id.
C10_MembershipOfOnePage ==
    /\ Cardinality(CallsOf("following")) <= 1
    /\ CallsOf("following") # {} => op = "isFollowingMe"
    /\ Returned("isFollowingMe") =>
          /\ Apis = <<"userByUsername", "me", "following">>
          /\ calls[3].userId = TargetId(username)
          /\ error = None
          /\ LET ids == IF relationship.data = None THEN {}
                        ELSE { relationship.data[1][i].id : i \in DOMAIN relationship.data[1] }
             IN result[1] = (currentUser[1].userId[1] \in ids)

\* the id is on the page, but not as its first entry
C10_Witness ==
    /\ Returned("isFollowingMe")
    /\ relationship.data # None
    /\ Len(relationship.data[1]) = 2
    /\ relationship.data[1][1].id # currentUser[1].userId[1]
    /\ relationship.data[1][2].id = currentUser[1].userId[1]
    /\ result = Some(TRUE)

====
